---- MODULE Spec2Model ----
(***************************************************************************)
(* Model of aligner_sw_common.h: the SwResult record, the SwMetrics        *)
(* aggregator with its lock-guarded merge, the counter/action sinks, and   *)
(* the backtrace cell types and transitions, with the DP matrix engine     *)
(* that fills the matrices and walks the backtrace.                        *)
(***************************************************************************)
EXTENDS Integers, Sequences, FiniteSets, Bags, TLC

(***************************************************************************)
(* Bounds of the model.                                                    *)
(***************************************************************************)
\* merge calls one thread makes
MaxMerges == 1
\* update calls one thread makes
MaxUpdates == 1
\* the counter vectors given to init() are the multiples 0..MaxScale of 1..9
MaxScale == 1

\* worker threads
NThreads == 2
\* longest edit list the engine installs
MaxEdits == 2
\* longest list of actions given to reportActions
MaxActions == 1
\* report calls one thread makes
MaxReports == 1
\* calls made on the aggregators by the single-threaded client
MaxOps == 3
\* last row and last column of the end cells a backtrace walk starts from
MaxRow == 3
MaxCol == 3

Threads == 1..NThreads

\* aggregator 0 is the SwMetrics shared by the threads, aggregator t is the
\* thread-local SwMetrics of thread t
Shared == 0
Aggs == {Shared} \cup Threads

\* value of a free MUTEX_T
Free == 0

(***************************************************************************)
(* Counters.                                                               *)
(***************************************************************************)
\* the counters of a SwResult, in declaration order
ResultCounters ==
    <<"sws", "swcups", "swrows", "swskiprows", "swskip", "swsucc", "swfail", "swbts">>

\* the counters of a SwMetrics, in declaration order
MetricsCounters == ResultCounters \o <<"rshit">>

Range(s) == {s[i] : i \in DOMAIN s}

\* SwMetrics::reset: every counter is 0
SwMetrics_reset == [f \in Range(MetricsCounters) |-> 0]

\* SwMetrics::init: the nine counters are set from the nine arguments
SwMetrics_init(args) == [f \in Range(MetricsCounters) |-> args[f]]

\* the counter vectors given to init(): k, 2k, ..., 9k
ScaledCounters(k) ==
    [f \in Range(MetricsCounters) |->
        k * (CHOOSE i \in DOMAIN MetricsCounters : MetricsCounters[i] = f)]

MetricsInputs == {ScaledCounters(k) : k \in 0..MaxScale}

MergeStatements_Slip ==
    << <<"sws", "sws">>, <<"swcups", "swcups">>, <<"swrows", "swrows">>,
       <<"swskiprows", "swskiprows">>, <<"swskip", "swskiprows">>,
       <<"swsucc", "swsucc">>, <<"swfail", "swfail">>, <<"swbts", "swbts">>,
       <<"rshit", "rshit">> >>

\* the statements of SwMetrics::merge, in order: <<destination, source>> of
\* each +=
MergeStatements ==
    << <<"sws", "sws">>, <<"swcups", "swcups">>, <<"swrows", "swrows">>,
       <<"swskiprows", "swskiprows">>, <<"swskip", "swskip">>,
       <<"swsucc", "swsucc">>, <<"swfail", "swfail">>, <<"swbts", "swbts">>,
       <<"rshit", "rshit">> >>

UpdateStatements_WithRshit ==
    << <<"sws", "sws">>, <<"swcups", "swcups">>, <<"swrows", "swrows">>,
       <<"swskiprows", "swskiprows">>, <<"swskip", "swskip">>,
       <<"swsucc", "swsucc">>, <<"swfail", "swfail">>, <<"swbts", "swbts">>,
       <<"rshit", "swbts">> >>

\* the statements of SwMetrics::update, in order
UpdateStatements ==
    << <<"sws", "sws">>, <<"swcups", "swcups">>, <<"swrows", "swrows">>,
       <<"swskiprows", "swskiprows">>, <<"swskip", "swskip">>,
       <<"swsucc", "swsucc">>, <<"swfail", "swfail">>, <<"swbts", "swbts">> >>

PlusAssign_Assign(x, y) == y

\* x += y on values already loaded
PlusAssign(x, y) == x + y

\* statements k.. of a list of += statements run by one thread with nothing
\* interleaved: m is the destination, r the source
RECURSIVE RunStatements(_, _, _, _)
RunStatements(stmts, m, r, k) ==
    IF k > Len(stmts) THEN m
    ELSE RunStatements(stmts,
            [m EXCEPT ![stmts[k][1]] = PlusAssign(m[stmts[k][1]], r[stmts[k][2]])],
            r, k + 1)

\* SwMetrics::update(r): r is a SwResult
SwMetrics_update(m, r) == RunStatements(UpdateStatements, m, r, 1)

\* the body of SwMetrics::merge(r) run without interleaving
SwMetrics_mergeBody(m, r) == RunStatements(MergeStatements, m, r, 1)

(***************************************************************************)
(* AlnRes (aligner_result.h): the edit lists and scores of one alignment.  *)
(***************************************************************************)
\* a score that is not valid, and a valid score
NoScore == [valid |-> FALSE, val |-> 0]

Score(v) == [valid |-> TRUE, val |-> v]

\* AlnRes(): no edits, no valid score
AlnRes_ctor == [ned |-> <<>>, aed |-> <<>>, ced |-> <<>>, score |-> NoScore, oscore |-> NoScore]

\* AlnRes::reset
AlnRes_reset(a) == AlnRes_ctor

\* AlnRes::empty: no alignment has been installed
AlnRes_empty(a) == ~a.score.valid

Reversed(s) == [i \in 1..Len(s) |-> s[Len(s) + 1 - i]]

\* AlnRes::reverseEdits: every edit list is reversed in place
AlnRes_reverseEdits(a) ==
    [a EXCEPT !.ned = Reversed(@), !.aed = Reversed(@), !.ced = Reversed(@)]

(***************************************************************************)
(* SwResult.                                                               *)
(***************************************************************************)
\* SwResult(): alres and the eight counters are initialised; nup and ndn are
\* not, so they hold whatever the storage held
SwResult_ctor(nup0, ndn0) ==
    [alres |-> AlnRes_ctor,
     sws |-> 0, swcups |-> 0, swrows |-> 0, swskiprows |-> 0,
     swskip |-> 0, swsucc |-> 0, swfail |-> 0, swbts |-> 0,
     nup |-> nup0, ndn |-> ndn0]

SwResult_reset_KeepsBts(r) ==
    [r EXCEPT !.sws = 0, !.swcups = 0, !.swrows = 0, !.swskiprows = 0,
              !.swskip = 0, !.swsucc = 0, !.swfail = 0,
              !.alres = AlnRes_reset(@)]

SwResult_reset_KeepsAlres(r) ==
    [r EXCEPT !.sws = 0, !.swcups = 0, !.swrows = 0, !.swskiprows = 0,
              !.swskip = 0, !.swsucc = 0, !.swfail = 0, !.swbts = 0]

\* SwResult::reset
SwResult_reset(r) ==
    [r EXCEPT !.sws = 0, !.swcups = 0, !.swrows = 0, !.swskiprows = 0,
              !.swskip = 0, !.swsucc = 0, !.swfail = 0, !.swbts = 0,
              !.alres = AlnRes_reset(@)]

SwResult_reverse_ClearsBts(r) ==
    [r EXCEPT !.alres = AlnRes_reverseEdits(@), !.swbts = 0]

\* SwResult::reverse
SwResult_reverse(r) == [r EXCEPT !.alres = AlnRes_reverseEdits(@)]

SwResult_empty_Inverted(r) == ~AlnRes_empty(r.alres)

\* SwResult::empty
SwResult_empty(r) == AlnRes_empty(r.alres)

\* the counters of a SwResult as a vector
CountersOf(r) == [f \in Range(ResultCounters) |-> r[f]]

\* what the engine leaves in a SwResult: an alignment (or none), the counters
\* of the invocation, the decoded flanking nucleotides
Installed(a, c, flank) ==
    [alres |-> a,
     sws |-> c.sws, swcups |-> c.swcups, swrows |-> c.swrows,
     swskiprows |-> c.swskiprows, swskip |-> c.swskip, swsucc |-> c.swsucc,
     swfail |-> c.swfail, swbts |-> c.swbts,
     nup |-> flank[1], ndn |-> flank[2]]

\* edit lists as the backtrace emits them, right to left: the edits at some of
\* the positions 1..MaxEdits, highest position first
RECURSIVE Descending(_)
Descending(S) ==
    IF S = {} THEN <<>>
    ELSE LET hi == CHOOSE e \in S : \A x \in S : x <= e
         IN <<hi>> \o Descending(S \ {hi})

EditLists == {Descending(S) : S \in SUBSET (1..MaxEdits)}

ScorePairs == {<<Score(8), NoScore>>, <<Score(8), Score(5)>>, <<Score(5), NoScore>>}

\* the alignments the engine installs
AlnInputs ==
    {[ned |-> n, aed |-> a, ced |-> c, score |-> sp[1], oscore |-> sp[2]] :
        n \in EditLists, a \in EditLists, c \in EditLists, sp \in ScorePairs}

\* the counters of one invocation
ResultCounterInputs ==
    {[f \in Range(ResultCounters) |-> ScaledCounters(k)[f]] : k \in 1..MaxScale}

\* the decoded flanking nucleotides the engine installs
FlankInputs == {<<0, 3>>, <<2, 2>>}

\* what an uninitialised int may hold
Indeterminate == {-1, 1}

\* the SwResults the worker threads pass to update
ResultInputs == {Installed(AlnRes_ctor, c, <<0, 0>>) : c \in ResultCounterInputs}

(***************************************************************************)
(* ThreadSafe: the guard object of threading.h.  Its constructor locks the *)
(* mutex when its second argument is true, its destructor unlocks what the *)
(* constructor locked.                                                     *)
(***************************************************************************)
\* lifetime of the guard in SwMetrics::merge: "ThreadSafe ts(&lock, getLock);"
\* is a named local, destroyed at the end of the block
MergeGuardLifetime_Temporary == "statement"

MergeGuardLifetime == "block"

\* a guard keeps the mutex over the statements after it iff it locked the
\* mutex and lives to the end of the block
GuardKeepsLock(lifetime, locked) == locked /\ lifetime = "block"


(***************************************************************************)
(* State.                                                                  *)
(***************************************************************************)
VARIABLES
    met,      \* met[a]: the nine counters of aggregator a
    lock,     \* lock[a]: the thread holding aggregator a's mutex, or Free
    pc,       \* pc[t]: where thread t is in its merge call
    idx,      \* idx[t]: the statement of merge thread t is at
    tmp,      \* tmp[t]: the destination counter thread t loaded for its +=
    call,     \* call[t]: the arguments of thread t's last merge call
    nmerge,   \* nmerge[t]: merge calls thread t has started
    nupd,     \* nupd[t]: update calls thread t has made
    expect,   \* history: the shared counters plus every merged source
    seq,      \* history: one aggregator updated directly with every result
    res,      \* the SwResult of the single-threaded client
    lastOp,   \* history: the last call of the single-threaded client
    prevOp,   \* history: the call before it
    nops,     \* calls the single-threaded client has made on the aggregators
    slock,    \* slock[s]: the thread holding sink s's mutex, or Free
    spc,      \* spc[t]: where thread t is in its report call
    scall,    \* scall[t]: the sink and the argument of thread t's report call
    sk,       \* sk[t]: writes the hook called by thread t has made
    out,      \* out[s]: the characters written to the stream of sink s
    nrep,     \* nrep[t]: report calls thread t has started
    reported, \* history: the records given to reportCounters, in call order
    erun,     \* the inputs of the engine's current invocation
    epc,      \* where the engine is in its invocation
    mat,      \* the rows of the three score matrices filled so far
    epos,     \* the cell and the location the backtrace walk is at
    etrace,   \* history: the steps the backtrace walk has taken
    pre,      \* history: the counters of res when the invocation started
    eout      \* history: how the invocation ended

mvars == <<met, lock, pc, idx, tmp, call, nmerge, nupd, expect, seq>>

rvars == <<res, lastOp, prevOp, nops>>

svars == <<slock, spc, scall, sk, out, nrep, reported>>

evars == <<erun, epc, mat, epos, etrace, pre, eout>>

vars == <<mvars, rvars, svars, evars>>

NoCall == [dst |-> Shared, src |-> Shared, getLock |-> FALSE, held |-> FALSE]

NoOp == [op |-> "none", dst |-> Shared, src |-> Shared, getLock |-> FALSE]

\* sum of two counter vectors, counter by counter
VecAdd(a, b) == [f \in DOMAIN a |-> a[f] + b[f]]

\* SwMetrics() { reset(); MUTEX_INIT(lock); } for every aggregator
MetricsInit ==
    /\ met = [a \in Aggs |-> SwMetrics_reset]
    /\ lock = [a \in Aggs |-> Free]
    /\ pc = [t \in Threads |-> "idle"]
    /\ idx = [t \in Threads |-> 0]
    /\ tmp = [t \in Threads |-> 0]
    /\ call = [t \in Threads |-> NoCall]
    /\ nmerge = [t \in Threads |-> 0]
    /\ nupd = [t \in Threads |-> 0]
    /\ expect = SwMetrics_reset
    /\ seq = SwMetrics_reset

(***************************************************************************)
(* Threads merging into the shared aggregator.                             *)
(***************************************************************************)
\* init(...) on the shared aggregator before any thread has used it
RestoreShared(v) ==
    /\ \A t \in Threads : pc[t] = "idle" /\ nupd[t] = 0 /\ nmerge[t] = 0
    /\ met[Shared] = SwMetrics_reset
    /\ v # SwMetrics_reset
    /\ met' = [met EXCEPT ![Shared] = SwMetrics_init(v)]
    /\ expect' = v
    /\ seq' = SwMetrics_init(v)
    /\ UNCHANGED <<lock, pc, idx, tmp, call, nmerge, nupd>>
    /\ UNCHANGED <<rvars, svars, evars>>

\* the caller takes the shared aggregator's mutex itself, before merge
CallerLock(t) ==
    /\ pc[t] = "idle"
    /\ nmerge[t] < MaxMerges
    /\ lock[Shared] = Free
    /\ lock' = [lock EXCEPT ![Shared] = t]
    /\ pc' = [pc EXCEPT ![t] = "locked"]
    /\ UNCHANGED <<met, idx, tmp, call, nmerge, nupd, expect, seq>>
    /\ UNCHANGED <<rvars, svars, evars>>

\* the caller releases the mutex it took
CallerUnlock(t) ==
    /\ pc[t] = "unlock"
    /\ lock' = [lock EXCEPT ![Shared] = Free]
    /\ pc' = [pc EXCEPT ![t] = "idle"]
    /\ UNCHANGED <<met, idx, tmp, call, nmerge, nupd, expect, seq>>
    /\ UNCHANGED <<rvars, svars, evars>>

\* thread t calls met[Shared].merge(r, getLock), r being its own aggregator
\* met[t] holding the counters v
CallMerge(t, v, getLock) ==
    /\ pc[t] \in {"idle", "locked"}
    /\ nmerge[t] < MaxMerges
    /\ met' = [met EXCEPT ![t] = v]
    /\ call' = [call EXCEPT ![t] =
            [dst |-> Shared, src |-> t, getLock |-> getLock, held |-> pc[t] = "locked"]]
    /\ pc' = [pc EXCEPT ![t] = "ctor"]
    /\ nmerge' = [nmerge EXCEPT ![t] = @ + 1]
    /\ expect' = VecAdd(expect, v)
    /\ UNCHANGED <<lock, idx, tmp, nupd, seq>>
    /\ UNCHANGED <<rvars, svars, evars>>

\* merge(r, true) by a thread that does not hold the mutex
MergeLocked(t, v) == pc[t] = "idle" /\ CallMerge(t, SwMetrics_init(v), TRUE)

\* merge(r, false) by a thread that took the mutex itself
MergeHeld(t, v) == pc[t] = "locked" /\ CallMerge(t, SwMetrics_init(v), FALSE)

\* merge(r): getLock takes its default, false, and the caller holds no mutex
MergeDefault(t, v) == pc[t] = "idle" /\ CallMerge(t, SwMetrics_init(v), FALSE)

MergeCtor_LocksSource(t) ==
    /\ pc[t] = "ctor"
    /\ call[t].getLock => lock[call[t].dst] = Free /\ lock[call[t].src] = Free
    /\ lock' = IF GuardKeepsLock(MergeGuardLifetime, call[t].getLock)
               THEN [a \in Aggs |-> IF a \in {call[t].dst, call[t].src} THEN t ELSE lock[a]]
               ELSE lock
    /\ pc' = [pc EXCEPT ![t] = "load"]
    /\ idx' = [idx EXCEPT ![t] = 1]
    /\ UNCHANGED <<met, tmp, call, nmerge, nupd, expect, seq>>
    /\ UNCHANGED <<rvars, svars, evars>>

\* ThreadSafe ts(&lock, getLock): blocks until the mutex is free when getLock
MergeCtor(t) ==
    /\ pc[t] = "ctor"
    /\ call[t].getLock => lock[call[t].dst] = Free
    /\ lock' = IF GuardKeepsLock(MergeGuardLifetime, call[t].getLock)
               THEN [lock EXCEPT ![call[t].dst] = t]
               ELSE lock
    /\ pc' = [pc EXCEPT ![t] = "load"]
    /\ idx' = [idx EXCEPT ![t] = 1]
    /\ UNCHANGED <<met, tmp, call, nmerge, nupd, expect, seq>>
    /\ UNCHANGED <<rvars, svars, evars>>

\* first half of one += of merge: the destination counter is read
MergeLoad(t) ==
    /\ pc[t] = "load"
    /\ tmp' = [tmp EXCEPT ![t] = met[call[t].dst][MergeStatements[idx[t]][1]]]
    /\ pc' = [pc EXCEPT ![t] = "store"]
    /\ UNCHANGED <<met, lock, idx, call, nmerge, nupd, expect, seq>>
    /\ UNCHANGED <<rvars, svars, evars>>

\* second half of one += of merge: the sum is written back
MergeStore(t) ==
    /\ pc[t] = "store"
    /\ met' = [met EXCEPT ![call[t].dst][MergeStatements[idx[t]][1]] =
            PlusAssign(tmp[t], met[call[t].src][MergeStatements[idx[t]][2]])]
    /\ tmp' = [tmp EXCEPT ![t] = 0]
    /\ IF idx[t] < Len(MergeStatements)
       THEN /\ idx' = [idx EXCEPT ![t] = @ + 1]
            /\ pc' = [pc EXCEPT ![t] = "load"]
       ELSE /\ idx' = [idx EXCEPT ![t] = 0]
            /\ pc' = [pc EXCEPT ![t] = "dtor"]
    /\ UNCHANGED <<lock, call, nmerge, nupd, expect, seq>>
    /\ UNCHANGED <<rvars, svars, evars>>

MergeDtor_KeepsMutex(t) ==
    /\ pc[t] = "dtor"
    /\ pc' = [pc EXCEPT ![t] = IF call[t].held THEN "unlock" ELSE "idle"]
    /\ UNCHANGED <<met, lock, idx, tmp, call, nmerge, nupd, expect, seq>>
    /\ UNCHANGED <<rvars, svars, evars>>

\* end of merge's block: ts is destroyed and merge returns
MergeDtor(t) ==
    /\ pc[t] = "dtor"
    /\ lock' = IF GuardKeepsLock(MergeGuardLifetime, call[t].getLock)
               THEN [lock EXCEPT ![call[t].dst] = Free]
               ELSE lock
    /\ pc' = [pc EXCEPT ![t] = IF call[t].held THEN "unlock" ELSE "idle"]
    /\ UNCHANGED <<met, idx, tmp, call, nmerge, nupd, expect, seq>>
    /\ UNCHANGED <<rvars, svars, evars>>

MergeSteps(t) == MergeCtor(t) \/ MergeLoad(t) \/ MergeStore(t) \/ MergeDtor(t)

\* thread t adds one SwResult to its own aggregator with update; the history
\* aggregator seq gets the same update directly
Update(t, r) ==
    /\ pc[t] = "idle"
    /\ nmerge[t] = 0
    /\ nupd[t] < MaxUpdates
    /\ met' = [met EXCEPT ![t] = SwMetrics_update(@, r)]
    /\ seq' = SwMetrics_update(seq, r)
    /\ nupd' = [nupd EXCEPT ![t] = @ + 1]
    /\ UNCHANGED <<lock, pc, idx, tmp, call, nmerge, expect>>
    /\ UNCHANGED <<rvars, svars, evars>>

\* thread t merges its own aggregator, as it stands, with merge(local, true)
MergeLocal(t) == pc[t] = "idle" /\ CallMerge(t, met[t], TRUE)

(***************************************************************************)
(* The single-threaded client: one SwResult, reused across attempts.       *)
(***************************************************************************)
\* in the specifications of the threads and of the sinks the client is absent
ClientAbsent ==
    /\ res = SwResult_ctor(0, 0)
    /\ lastOp = NoOp
    /\ prevOp = "none"
    /\ nops = 0

\* SwResult res; nup and ndn are uninitialised
ClientInit ==
    /\ \E nup0 \in Indeterminate, ndn0 \in Indeterminate : res = SwResult_ctor(nup0, ndn0)
    /\ lastOp = NoOp
    /\ prevOp = "none"
    /\ nops = 0

Op(name) == [NoOp EXCEPT !.op = name]

\* the engine populates a fresh or reset SwResult, once per attempt: with an
\* alignment a, or with none when the attempt fails
Populate(a, c, flank) ==
    /\ lastOp.op \in {"none", "reset"}
    /\ res' = Installed(a, c, flank)
    /\ lastOp' = Op("populate")
    /\ prevOp' = lastOp.op
    /\ UNCHANGED <<nops, mvars, svars, evars>>

\* res.reverse()
Reverse ==
    /\ res' = SwResult_reverse(res)
    /\ lastOp' = Op("reverse")
    /\ prevOp' = lastOp.op
    /\ UNCHANGED <<nops, mvars, svars, evars>>

\* res.reset()
Reset ==
    /\ res' = SwResult_reset(res)
    /\ lastOp' = Op("reset")
    /\ prevOp' = lastOp.op
    /\ UNCHANGED <<nops, mvars, svars, evars>>

ResultNext ==
    \/ \E a \in AlnInputs \cup {AlnRes_ctor}, c \in ResultCounterInputs,
          flank \in FlankInputs : Populate(a, c, flank)
    \/ Reverse
    \/ Reset

(***************************************************************************)
(* The single-threaded client: calls on two aggregators.                   *)
(***************************************************************************)
\* the aggregators the client calls
ClientAggs == {Shared, 1}

\* the engine leaves a result in res
ApiPopulate(r) ==
    /\ nops < MaxOps
    /\ res # r
    /\ res' = r
    /\ lastOp' = Op("populate")
    /\ nops' = nops + 1
    /\ UNCHANGED <<prevOp, mvars, svars, evars>>

\* met[a].reset()
ApiReset(a) ==
    /\ nops < MaxOps
    /\ met' = [met EXCEPT ![a] = SwMetrics_reset]
    /\ lastOp' = [op |-> "reset", dst |-> a, src |-> a, getLock |-> FALSE]
    /\ nops' = nops + 1
    /\ UNCHANGED <<lock, pc, idx, tmp, call, nmerge, nupd, expect, seq>>
    /\ UNCHANGED <<res, prevOp, svars, evars>>

\* met[a].init(v.sws, ..., v.rshit)
ApiInit(a, v) ==
    /\ nops < MaxOps
    /\ met' = [met EXCEPT ![a] = SwMetrics_init(v)]
    /\ lastOp' = [op |-> "init", dst |-> a, src |-> a, getLock |-> FALSE]
    /\ nops' = nops + 1
    /\ UNCHANGED <<lock, pc, idx, tmp, call, nmerge, nupd, expect, seq>>
    /\ UNCHANGED <<res, prevOp, svars, evars>>

\* met[a].update(res)
ApiUpdate(a) ==
    /\ nops < MaxOps
    /\ met' = [met EXCEPT ![a] = SwMetrics_update(@, res)]
    /\ lastOp' = [op |-> "update", dst |-> a, src |-> a, getLock |-> FALSE]
    /\ nops' = nops + 1
    /\ UNCHANGED <<lock, pc, idx, tmp, call, nmerge, nupd, expect, seq>>
    /\ UNCHANGED <<res, prevOp, svars, evars>>

ApiMerge_DrainsSource(dst, src, getLock) ==
    /\ nops < MaxOps
    /\ getLock => lock[dst] = Free
    /\ met' = [a \in Aggs |->
                IF a = dst THEN SwMetrics_mergeBody(met[dst], met[src])
                ELSE IF a = src THEN SwMetrics_reset
                ELSE met[a]]
    /\ lastOp' = [op |-> "merge", dst |-> dst, src |-> src, getLock |-> getLock]
    /\ nops' = nops + 1
    /\ UNCHANGED <<lock, pc, idx, tmp, call, nmerge, nupd, expect, seq>>
    /\ UNCHANGED <<res, prevOp, svars, evars>>

\* met[dst].merge(met[src], getLock), the whole call: no other thread runs, so
\* the guard finds the mutex free, and has released it when merge returns
ApiMerge(dst, src, getLock) ==
    /\ nops < MaxOps
    /\ getLock => lock[dst] = Free
    /\ met' = [met EXCEPT ![dst] = SwMetrics_mergeBody(met[dst], met[src])]
    /\ lastOp' = [op |-> "merge", dst |-> dst, src |-> src, getLock |-> getLock]
    /\ nops' = nops + 1
    /\ UNCHANGED <<lock, pc, idx, tmp, call, nmerge, nupd, expect, seq>>
    /\ UNCHANGED <<res, prevOp, svars, evars>>

ApiNext ==
    \/ \E r \in ResultInputs : ApiPopulate(r)
    \/ \E a \in ClientAggs : ApiReset(a)
    \/ \E a \in ClientAggs, v \in MetricsInputs : ApiInit(a, v)
    \/ \E a \in ClientAggs : ApiUpdate(a)
    \/ \E dst \in ClientAggs, src \in ClientAggs, getLock \in BOOLEAN :
          ApiMerge(dst, src, getLock)

(***************************************************************************)
(* The sinks: SwCounterSink / StreamTabSwCounterSink and SwActionSink /    *)
(* StreamTabSwActionSink.                                                  *)
(***************************************************************************)
Sinks == {"counters", "actions"}

DigitChars == <<"0", "1", "2", "3", "4", "5", "6", "7", "8", "9">>

\* os_ << n for an unsigned integer n: its decimal digits
RECURSIVE Decimal(_)
Decimal(n) ==
    IF n < 10 THEN <<DigitChars[n + 1]>>
    ELSE Decimal(n \div 10) \o <<DigitChars[(n % 10) + 1]>>

\* StreamTabSwCounterSink::reportCountersImpl: the four writes to os_, each the
\* characters one operator<< call appends
CounterSinkWrites(c) == <<Decimal(c.cups), <<"\t">>, Decimal(c.bts), <<"\n">>>>

\* StreamTabSwActionSink::reportActionsImpl: one write of "\n" for each action
ActionSinkWrites(as) == [i \in 1..Len(as) |-> <<"\n">>]

\* the writes of the hook of the sink of call c
HookWrites(c) ==
    IF c.sink = "counters" THEN CounterSinkWrites(c.arg) ELSE ActionSinkWrites(c.arg)

\* the SwCounters given to reportCounters
CounterInputs == {[cups |-> 10 * k + 2, bts |-> k] : k \in 1..MaxScale}

\* the EList<SwAction> given to reportActions; a SwAction has no members
ActionInputs == {[i \in 1..n |-> "SwAction"] : n \in 0..MaxActions}

NoReport == [sink |-> "counters", arg |-> <<>>]

\* SwCounterSink() and SwActionSink(): MUTEX_INIT(lock_); the streams are empty
SinkInit ==
    /\ slock = [s \in Sinks |-> Free]
    /\ spc = [t \in Threads |-> "idle"]
    /\ scall = [t \in Threads |-> NoReport]
    /\ sk = [t \in Threads |-> 0]
    /\ out = [s \in Sinks |-> <<>>]
    /\ nrep = [t \in Threads |-> 0]
    /\ reported = <<>>

\* thread t calls the report method of sink s
Report(t, s, arg) ==
    /\ spc[t] = "idle"
    /\ nrep[t] < MaxReports
    /\ scall' = [scall EXCEPT ![t] = [sink |-> s, arg |-> arg]]
    /\ spc' = [spc EXCEPT ![t] = "guard"]
    /\ nrep' = [nrep EXCEPT ![t] = @ + 1]
    /\ reported' = IF s = "counters" THEN Append(reported, arg) ELSE reported
    /\ UNCHANGED <<slock, sk, out>>
    /\ UNCHANGED <<mvars, rvars, evars>>

\* SwCounterSink::reportCounters(c)
ReportCounters(t, c) == Report(t, "counters", c)

\* SwActionSink::reportActions(as)
ReportActions(t, as) == Report(t, "actions", as)

\* "ThreadSafe(&this->lock_);": the constructor of the unnamed guard locks the
\* sink's mutex, waiting until it is free
SinkGuardCtor(t) ==
    /\ spc[t] = "guard"
    /\ slock[scall[t].sink] = Free
    /\ slock' = [slock EXCEPT ![scall[t].sink] = t]
    /\ spc' = [spc EXCEPT ![t] = "unguard"]
    /\ UNCHANGED <<scall, sk, out, nrep, reported>>
    /\ UNCHANGED <<mvars, rvars, evars>>

\* the unnamed guard is a temporary: it is destroyed, and the mutex unlocked,
\* at the end of the statement that created it; then the hook is called
SinkGuardDtor(t) ==
    /\ spc[t] = "unguard"
    /\ slock' = [slock EXCEPT ![scall[t].sink] = Free]
    /\ spc' = [spc EXCEPT ![t] = "hook"]
    /\ sk' = [sk EXCEPT ![t] = 0]
    /\ UNCHANGED <<scall, out, nrep, reported>>
    /\ UNCHANGED <<mvars, rvars, evars>>

\* the hook makes its next write to the sink's stream
HookWrite(t) ==
    /\ spc[t] = "hook"
    /\ sk[t] < Len(HookWrites(scall[t]))
    /\ out' = [out EXCEPT ![scall[t].sink] = @ \o HookWrites(scall[t])[sk[t] + 1]]
    /\ sk' = [sk EXCEPT ![t] = @ + 1]
    /\ UNCHANGED <<slock, spc, scall, nrep, reported>>
    /\ UNCHANGED <<mvars, rvars, evars>>

\* the hook returns, and the report method with it
HookReturn(t) ==
    /\ spc[t] = "hook"
    /\ sk[t] = Len(HookWrites(scall[t]))
    /\ spc' = [spc EXCEPT ![t] = "idle"]
    /\ sk' = [sk EXCEPT ![t] = 0]
    /\ UNCHANGED <<slock, scall, out, nrep, reported>>
    /\ UNCHANGED <<mvars, rvars, evars>>

SinkNext ==
    \/ \E t \in Threads, c \in CounterInputs : ReportCounters(t, c)
    \/ \E t \in Threads, as \in ActionInputs : ReportActions(t, as)
    \/ \E t \in Threads : SinkGuardCtor(t)
    \/ \E t \in Threads : SinkGuardDtor(t)
    \/ \E t \in Threads : HookWrite(t)
    \/ \E t \in Threads : HookReturn(t)

(***************************************************************************)
(* The backtrace state machine: the three cell types and the nine ways of  *)
(* backtracking from a later cell to an earlier cell.                      *)
(***************************************************************************)
\* the three types of cell that exist at each row, col
CellTypes == {"SW_BT_CELL_OALL", "SW_BT_CELL_RDGAP", "SW_BT_CELL_RFGAP"}

\* the nine transitions, in declaration order
Transitions ==
    <<"SW_BT_OALL_DIAG", "SW_BT_OALL_REF_OPEN", "SW_BT_OALL_REF_EXTEND",
      "SW_BT_OALL_READ_OPEN", "SW_BT_OALL_READ_EXTEND",
      "SW_BT_RDGAP_OPEN", "SW_BT_RDGAP_EXTEND",
      "SW_BT_RFGAP_OPEN", "SW_BT_RFGAP_EXTEND">>

\* "from <type> cell": the cell type a transition leaves
TransitionFrom(tr) ==
    CASE tr \in {"SW_BT_OALL_DIAG", "SW_BT_OALL_REF_OPEN", "SW_BT_OALL_REF_EXTEND",
                 "SW_BT_OALL_READ_OPEN", "SW_BT_OALL_READ_EXTEND"} -> "SW_BT_CELL_OALL"
      [] tr \in {"SW_BT_RDGAP_OPEN", "SW_BT_RDGAP_EXTEND"} -> "SW_BT_CELL_RDGAP"
      [] tr \in {"SW_BT_RFGAP_OPEN", "SW_BT_RFGAP_EXTEND"} -> "SW_BT_CELL_RFGAP"

TransitionTo_DiagToRfgap(tr) ==
    CASE tr \in {"SW_BT_OALL_REF_OPEN", "SW_BT_OALL_READ_OPEN",
                 "SW_BT_RDGAP_OPEN", "SW_BT_RFGAP_OPEN"} -> "SW_BT_CELL_OALL"
      [] tr \in {"SW_BT_OALL_READ_EXTEND", "SW_BT_RDGAP_EXTEND"} -> "SW_BT_CELL_RDGAP"
      [] tr \in {"SW_BT_OALL_DIAG", "SW_BT_OALL_REF_EXTEND",
                 "SW_BT_RFGAP_EXTEND"} -> "SW_BT_CELL_RFGAP"

TransitionTo_ReadOpenToRdgap(tr) ==
    CASE tr \in {"SW_BT_OALL_DIAG", "SW_BT_OALL_REF_OPEN",
                 "SW_BT_RDGAP_OPEN", "SW_BT_RFGAP_OPEN"} -> "SW_BT_CELL_OALL"
      [] tr \in {"SW_BT_OALL_READ_OPEN", "SW_BT_OALL_READ_EXTEND",
                 "SW_BT_RDGAP_EXTEND"} -> "SW_BT_CELL_RDGAP"
      [] tr \in {"SW_BT_OALL_REF_EXTEND", "SW_BT_RFGAP_EXTEND"} -> "SW_BT_CELL_RFGAP"

TransitionTo_RdgapOpenStays(tr) ==
    CASE tr \in {"SW_BT_OALL_DIAG", "SW_BT_OALL_REF_OPEN", "SW_BT_OALL_READ_OPEN",
                 "SW_BT_RFGAP_OPEN"} -> "SW_BT_CELL_OALL"
      [] tr \in {"SW_BT_OALL_READ_EXTEND", "SW_BT_RDGAP_OPEN",
                 "SW_BT_RDGAP_EXTEND"} -> "SW_BT_CELL_RDGAP"
      [] tr \in {"SW_BT_OALL_REF_EXTEND", "SW_BT_RFGAP_EXTEND"} -> "SW_BT_CELL_RFGAP"

\* "to <type> cell": the cell type a transition arrives in
TransitionTo(tr) ==
    CASE tr \in {"SW_BT_OALL_DIAG", "SW_BT_OALL_REF_OPEN", "SW_BT_OALL_READ_OPEN",
                 "SW_BT_RDGAP_OPEN", "SW_BT_RFGAP_OPEN"} -> "SW_BT_CELL_OALL"
      [] tr \in {"SW_BT_OALL_READ_EXTEND", "SW_BT_RDGAP_EXTEND"} -> "SW_BT_CELL_RDGAP"
      [] tr \in {"SW_BT_OALL_REF_EXTEND", "SW_BT_RFGAP_EXTEND"} -> "SW_BT_CELL_RFGAP"

ReadConsumed_DiagOnly(tr) == IF tr = "SW_BT_OALL_DIAG" THEN 1 ELSE 0

\* read positions a transition consumes as it steps to the earlier cell
ReadConsumed(tr) ==
    IF tr \in {"SW_BT_OALL_DIAG", "SW_BT_OALL_READ_OPEN", "SW_BT_OALL_READ_EXTEND",
               "SW_BT_RDGAP_OPEN", "SW_BT_RDGAP_EXTEND"}
    THEN 1 ELSE 0

\* reference positions a transition consumes as it steps to the earlier cell
RefConsumed(tr) ==
    IF tr \in {"SW_BT_OALL_DIAG", "SW_BT_OALL_REF_OPEN", "SW_BT_OALL_REF_EXTEND",
               "SW_BT_RFGAP_OPEN", "SW_BT_RFGAP_EXTEND"}
    THEN 1 ELSE 0

\* the transitions that step over an extra base of the read (an insertion)
ReadGapTransitions ==
    {"SW_BT_OALL_READ_OPEN", "SW_BT_OALL_READ_EXTEND",
     "SW_BT_RDGAP_OPEN", "SW_BT_RDGAP_EXTEND"}

\* the transitions that step over an unmatched base of the reference
RefGapTransitions ==
    {"SW_BT_OALL_REF_OPEN", "SW_BT_OALL_REF_EXTEND",
     "SW_BT_RFGAP_OPEN", "SW_BT_RFGAP_EXTEND"}

(***************************************************************************)
(* The DP matrix engine: one invocation fills the three score matrices row *)
(* by row with the affine-gap recurrence, chooses an end cell, walks the   *)
(* backtrace and installs the alignment in the SwResult.                   *)
(***************************************************************************)
\* the scoring scheme of the scenarios: match bonus, mismatch score, and the
\* penalties of opening and of extending a gap
MatchBonus == 2

MismatchScore == -1

GapOpen == 3

GapExtend == 1

\* the score of a cell no alignment reaches: a sentinel minimum, never zero
Unreached == -1000

SubScore(a, b) == IF a = b THEN MatchBonus ELSE MismatchScore

\* x + d, x - p and max on scores, an unreached score staying unreached
ScorePlus(x, d) == IF x = Unreached THEN Unreached ELSE x + d

ScoreMinus(x, p) == IF x = Unreached THEN Unreached ELSE x - p

ScoreMax(x, y) == IF x >= y THEN x ELSE y

\* a cell outside the matrix
NoCell ==
    [oall |-> Unreached, rdgap |-> Unreached, rfgap |-> Unreached,
     bto |-> "none", btrd |-> "none", btrf |-> "none"]

\* a cell of row 0: an alignment may begin at any reference position
StartRowCell == [NoCell EXCEPT !.oall = 0]

\* the first of the terms, in the order of preference, whose value is best
FirstBest(order, val, best) ==
    order[CHOOSE k \in DOMAIN order :
            /\ val[order[k]] = best
            /\ \A h \in 1..(k - 1) : val[order[h]] # best]

\* cell (i, j) from its neighbours up (i-1, j), left (i, j-1) and dg
\* (i-1, j-1), a and b being the read base i and the reference base j:
\*   Rdgap(i,j) = max(Oall(i-1,j) - gapOpenRead, Rdgap(i-1,j) - gapExtendRead)
\*   Rfgap(i,j) = max(Oall(i,j-1) - gapOpenRef,  Rfgap(i,j-1) - gapExtendRef)
\*   Oall(i,j)  = max(Oall(i-1,j-1) + subScore(i,j), Rdgap(i,j), Rfgap(i,j),
\*                    0 in local mode)
\* with the term that won recorded as the backtrace tag of each matrix
FilledCell(run, up, left, dg, a, b) ==
    LET rdo == ScoreMinus(up.oall, GapOpen)
        rde == ScoreMinus(up.rdgap, GapExtend)
        rd == ScoreMax(rdo, rde)
        rfo == ScoreMinus(left.oall, GapOpen)
        rfe == ScoreMinus(left.rfgap, GapExtend)
        rf == ScoreMax(rfo, rfe)
        val == [diag |-> ScorePlus(dg.oall, SubScore(a, b)), rdgap |-> rd, rfgap |-> rf]
        top == ScoreMax(val.diag, ScoreMax(rd, rf))
        floored == run.mode = "local" /\ top <= 0
        rdOpens == rdo = rd /\ (rde # rd \/ run.order.open)
        rfOpens == rfo = rf /\ (rfe # rf \/ run.order.open)
        won == FirstBest(run.order.terms, val, top)
    IN [oall |-> IF floored THEN 0 ELSE top,
        rdgap |-> rd,
        rfgap |-> rf,
        bto |-> IF floored THEN "floor"
                ELSE IF top = Unreached THEN "none"
                ELSE IF won = "diag" THEN "SW_BT_OALL_DIAG"
                ELSE IF won = "rdgap"
                     THEN (IF rdOpens THEN "SW_BT_OALL_READ_OPEN"
                           ELSE "SW_BT_OALL_READ_EXTEND")
                     ELSE (IF rfOpens THEN "SW_BT_OALL_REF_OPEN"
                           ELSE "SW_BT_OALL_REF_EXTEND"),
        btrd |-> IF rd = Unreached THEN "none"
                 ELSE IF rdOpens THEN "SW_BT_RDGAP_OPEN" ELSE "SW_BT_RDGAP_EXTEND",
        btrf |-> IF rf = Unreached THEN "none"
                 ELSE IF rfOpens THEN "SW_BT_RFGAP_OPEN" ELSE "SW_BT_RFGAP_EXTEND"]

\* row i of the matrices, columns 0..j-1 being acc, from the row above
RECURSIVE FilledRow(_, _, _, _, _)
FilledRow(run, prev, i, j, acc) ==
    IF j > Len(run.ref) THEN acc
    ELSE FilledRow(run, prev, i, j + 1,
            Append(acc,
                IF j = 0
                THEN FilledCell(run, prev[1], NoCell, NoCell, run.read[i], "-")
                ELSE FilledCell(run, prev[j + 1], acc[j], prev[j],
                                run.read[i], run.ref[j])))

\* the read/reference pairs given to the engine
ProblemInputs ==
    { << <<"A", "C", "G", "T">>, <<"A", "C", "G", "T">> >>,
      << <<"A", "C", "G", "A">>, <<"A", "C", "G", "T">> >>,
      << <<"A", "C", "C", "G", "T">>, <<"A", "C", "G", "T">> >>,
      << <<"A", "C", "C", "C", "G", "T">>, <<"A", "C", "G", "T">> >>,
      << <<"A", "C", "T", "A">>, <<"A", "C", "G", "G", "T", "A">> >>,
      << <<"A", "A", "A", "A">>, <<"C", "C", "C", "C">> >> }

\* the alignment modes
Modes == {"local", "e2e"}

\* the minimum-score thresholds the caller gives
ThresholdInputs == {4, 6, 9}

\* every permutation of a set of terms, as a sequence
Orderings(S) ==
    {o \in [1..Cardinality(S) -> S] : \A x \in S : \E k \in DOMAIN o : o[k] = x}

\* the deterministic orders of preference among terms of equal value: of the
\* three terms of Oall, and of opening over extending a gap
TieOrders ==
    {[terms |-> o, open |-> b] : o \in Orderings({"diag", "rdgap", "rfgap"}), b \in BOOLEAN}

NoRun ==
    [read |-> <<>>, ref |-> <<>>, mode |-> "e2e", minsc |-> 0,
     order |-> [terms |-> <<"diag", "rdgap", "rfgap">>, open |-> TRUE]]

NoPos == [i |-> 0, j |-> 0, ct |-> "SW_BT_CELL_OALL", score |-> 0]

\* no invocation has been made
EngineAbsent ==
    /\ erun = NoRun
    /\ epc = "idle"
    /\ mat = <<>>
    /\ epos = NoPos
    /\ etrace = <<>>
    /\ pre = CountersOf(SwResult_ctor(0, 0))
    /\ eout = "none"

\* the whole-problem filter's bound on the score any alignment of the read
\* can reach: every base of the read matched
MaxAchievable(run) == Len(run.read) * MatchBonus

\* the cells an alignment may end in: any cell in local mode, a cell of the
\* last row in end-to-end mode
EndCells(run) ==
    {c \in (1..Len(run.read)) \X (1..Len(run.ref)) :
        run.mode = "e2e" => c[1] = Len(run.read)}

OallAt(m, c) == m[c[1] + 1][c[2] + 1].oall

\* the best score of an end cell
BestScore(run, m) ==
    LET cells == EndCells(run)
    IN OallAt(m, CHOOSE c \in cells : \A d \in cells : OallAt(m, d) <= OallAt(m, c))

\* the tag the cell at p recorded for the matrix the walk is in
RecordedTag(m, p) ==
    LET cell == m[p.i + 1][p.j + 1]
    IN CASE p.ct = "SW_BT_CELL_OALL" -> cell.bto
         [] p.ct = "SW_BT_CELL_RDGAP" -> cell.btrd
         [] p.ct = "SW_BT_CELL_RFGAP" -> cell.btrf

\* a start cell: row 0, column 0, or a cell where the local floor was used
StartCell(m, p) ==
    \/ p.i = 0
    \/ p.j = 0
    \/ RecordedTag(m, p) = "floor"

\* the edit a backtrace step from cell p emits, if any
EditsOf(run, p, tr) ==
    IF tr \in ReadGapTransitions THEN <<[pos |-> p.i, type |-> "rdgap"]>>
    ELSE IF tr \in RefGapTransitions THEN <<[pos |-> p.i, type |-> "rfgap"]>>
    ELSE IF run.read[p.i] # run.ref[p.j] THEN <<[pos |-> p.i, type |-> "mismatch"]>>
    ELSE <<>>

\* the driver resets the SwResult it reuses and calls the engine
Invoke(read, ref, mode, minsc, order) ==
    /\ epc \in {"idle", "done"}
    /\ res' = SwResult_reset(res)
    /\ pre' = CountersOf(SwResult_reset(res))
    /\ erun' = [read |-> read, ref |-> ref, mode |-> mode, minsc |-> minsc, order |-> order]
    /\ epc' = "filter"
    /\ mat' = <<>>
    /\ epos' = NoPos
    /\ etrace' = <<>>
    /\ eout' = "none"
    /\ UNCHANGED <<lastOp, prevOp, nops, mvars, svars>>

\* whole-problem skipping: no alignment can meet the threshold; the problem is
\* counted as skipped and the engine returns at once
SkipProblem ==
    /\ epc = "filter"
    /\ MaxAchievable(erun) < erun.minsc
    /\ res' = [res EXCEPT !.swskip = @ + 1]
    /\ epc' = "done"
    /\ eout' = "skipped"
    /\ UNCHANGED <<erun, mat, epos, etrace, pre>>
    /\ UNCHANGED <<lastOp, prevOp, nops, mvars, svars>>

\* the filter lets the problem through: row 0 is set up
StartFill ==
    /\ epc = "filter"
    /\ MaxAchievable(erun) >= erun.minsc
    /\ res' = [res EXCEPT !.sws = @ + 1]
    /\ mat' = <<[j \in 1..(Len(erun.ref) + 1) |-> StartRowCell]>>
    /\ epc' = "fill"
    /\ UNCHANGED <<erun, epos, etrace, pre, eout>>
    /\ UNCHANGED <<lastOp, prevOp, nops, mvars, svars>>

\* the next row of the three matrices is filled, columns 0..Len(ref)
FillRow ==
    /\ epc = "fill"
    /\ LET i == Len(mat)
       IN /\ mat' = Append(mat, FilledRow(erun, mat[i], i, 0, <<>>))
          /\ epc' = IF i = Len(erun.read) THEN "choose" ELSE "fill"
    /\ res' = [res EXCEPT !.swrows = @ + 1, !.swcups = @ + Len(erun.ref) + 1]
    /\ UNCHANGED <<erun, epos, etrace, pre, eout>>
    /\ UNCHANGED <<lastOp, prevOp, nops, mvars, svars>>

\* an alignment qualifies when its score reaches the threshold; a local
\* alignment of score 0 aligns nothing
Qualifies(run, score) ==
    score >= run.minsc /\ (run.mode = "local" => score > 0)

\* no end cell reaches the threshold: the invocation fails, the result stays
\* empty
FailProblem ==
    /\ epc = "choose"
    /\ ~Qualifies(erun, BestScore(erun, mat))
    /\ res' = [res EXCEPT !.swfail = @ + 1]
    /\ epc' = "done"
    /\ eout' = "failed"
    /\ UNCHANGED <<erun, mat, epos, etrace, pre>>
    /\ UNCHANGED <<lastOp, prevOp, nops, mvars, svars>>

\* the walk starts at a best end cell c, in the oall matrix
ChooseEnd(c) ==
    /\ epc = "choose"
    /\ Qualifies(erun, BestScore(erun, mat))
    /\ c \in EndCells(erun)
    /\ OallAt(mat, c) = BestScore(erun, mat)
    /\ epos' = [i |-> c[1], j |-> c[2], ct |-> "SW_BT_CELL_OALL", score |-> OallAt(mat, c)]
    /\ epc' = "walk"
    /\ UNCHANGED <<res, erun, mat, etrace, pre, eout>>
    /\ UNCHANGED <<lastOp, prevOp, nops, mvars, svars>>

\* one backtrace step: the transition recorded for the current cell and
\* matrix is taken, its edit emitted, swbts incremented
WalkStep ==
    /\ epc = "walk"
    /\ ~StartCell(mat, epos)
    /\ LET tr == RecordedTag(mat, epos)
       IN /\ tr # "none"
          /\ etrace' = Append(etrace, [tr |-> tr, i |-> epos.i, j |-> epos.j, ct |-> epos.ct])
          /\ epos' = [epos EXCEPT !.i = @ - ReadConsumed(tr),
                                  !.j = @ - RefConsumed(tr),
                                  !.ct = TransitionTo(tr)]
          /\ res' = [res EXCEPT !.swbts = @ + 1,
                                !.alres.ned = @ \o EditsOf(erun, epos, tr)]
    /\ UNCHANGED <<erun, epc, mat, pre, eout>>
    /\ UNCHANGED <<lastOp, prevOp, nops, mvars, svars>>

\* the walk has reached a start cell: the score is installed, the edits,
\* emitted right to left, are reversed, and the problem counted as a success
WalkStop ==
    /\ epc = "walk"
    /\ StartCell(mat, epos)
    /\ res' = SwResult_reverse([res EXCEPT !.alres.score = Score(epos.score),
                                           !.swsucc = @ + 1])
    /\ epc' = "done"
    /\ eout' = "aligned"
    /\ UNCHANGED <<erun, mat, epos, etrace, pre>>
    /\ UNCHANGED <<lastOp, prevOp, nops, mvars, svars>>

EngineNext ==
    \/ \E p \in ProblemInputs, mode \in Modes, minsc \in ThresholdInputs, o \in TieOrders :
          Invoke(p[1], p[2], mode, minsc, o)
    \/ SkipProblem
    \/ StartFill
    \/ FillRow
    \/ FailProblem
    \/ \E c \in EndCells(erun) : ChooseEnd(c)
    \/ WalkStep
    \/ WalkStop

(***************************************************************************)
(* The backtrace walk by itself, over cells that recorded any transitions. *)
(***************************************************************************)
\* the walk starts in the oall matrix at any end cell
WalkInit ==
    /\ erun = NoRun
    /\ epc = "walk"
    /\ mat = <<>>
    /\ \E i \in 0..MaxRow, j \in 0..MaxCol :
          epos = [i |-> i, j |-> j, ct |-> "SW_BT_CELL_OALL", score |-> 0]
    /\ etrace = <<>>
    /\ pre = CountersOf(SwResult_ctor(0, 0))
    /\ eout = "none"

\* row 0 or column 0
BorderCell(p) == p.i = 0 \/ p.j = 0

\* one backtrace step from a cell that recorded tr for the matrix the walk is
\* in: a cell is visited once, so what it recorded is chosen when it is read
WalkRecorded(tr) ==
    /\ epc = "walk"
    /\ ~BorderCell(epos)
    /\ TransitionFrom(tr) = epos.ct
    /\ etrace' = Append(etrace, [tr |-> tr, i |-> epos.i, j |-> epos.j, ct |-> epos.ct])
    /\ epos' = [epos EXCEPT !.i = @ - ReadConsumed(tr),
                            !.j = @ - RefConsumed(tr),
                            !.ct = TransitionTo(tr)]
    /\ res' = [res EXCEPT !.swbts = @ + 1]
    /\ UNCHANGED <<erun, epc, mat, pre, eout>>
    /\ UNCHANGED <<lastOp, prevOp, nops, mvars, svars>>

\* the walk has reached a start cell
WalkEnd ==
    /\ epc = "walk"
    /\ BorderCell(epos)
    /\ epc' = "done"
    /\ UNCHANGED <<res, erun, mat, epos, etrace, pre, eout>>
    /\ UNCHANGED <<lastOp, prevOp, nops, mvars, svars>>

WalkNext ==
    \/ \E k \in DOMAIN Transitions : WalkRecorded(Transitions[k])
    \/ WalkEnd

(***************************************************************************)
(* Threads merging thread-local aggregators into one another.              *)
(***************************************************************************)
\* the thread-local aggregator of thread a has counted a backtrace steps
CrossInit ==
    /\ met = [a \in Aggs |-> [SwMetrics_reset EXCEPT !.swbts = a]]
    /\ lock = [a \in Aggs |-> Free]
    /\ pc = [t \in Threads |-> "idle"]
    /\ idx = [t \in Threads |-> 0]
    /\ tmp = [t \in Threads |-> 0]
    /\ call = [t \in Threads |-> NoCall]
    /\ nmerge = [t \in Threads |-> 0]
    /\ nupd = [t \in Threads |-> 0]
    /\ expect = SwMetrics_reset
    /\ seq = SwMetrics_reset

\* thread t calls met[dst].merge(met[src], true)
CallCross(t, dst, src) ==
    /\ pc[t] = "idle"
    /\ nmerge[t] < MaxMerges
    /\ dst # src
    /\ call' = [call EXCEPT ![t] =
            [dst |-> dst, src |-> src, getLock |-> TRUE, held |-> FALSE]]
    /\ pc' = [pc EXCEPT ![t] = "ctor"]
    /\ nmerge' = [nmerge EXCEPT ![t] = @ + 1]
    /\ UNCHANGED <<met, lock, idx, tmp, nupd, expect, seq>>
    /\ UNCHANGED <<rvars, svars, evars>>

\* the aggregators X and Y: the thread-local aggregators of threads 1 and 2
CrossX == 1

CrossY == 2

\* thread 1 runs X.merge(Y, true), thread 2 runs Y.merge(X, true)
CrossNext ==
    \/ CallCross(CrossX, CrossX, CrossY)
    \/ CallCross(CrossY, CrossY, CrossX)
    \/ \E t \in Threads : MergeCtor(t)
    \/ \E t \in Threads : MergeLoad(t)
    \/ \E t \in Threads : MergeStore(t)
    \/ \E t \in Threads : MergeDtor(t)

(***************************************************************************)
(* Specifications.                                                         *)
(***************************************************************************)
\* threads that merge with getLock, or under a mutex they took themselves
MergeNext ==
    \/ \E v \in MetricsInputs : RestoreShared(v)
    \/ \E t \in Threads : CallerLock(t)
    \/ \E t \in Threads : CallerUnlock(t)
    \/ \E t \in Threads, v \in MetricsInputs : MergeLocked(t, v)
    \/ \E t \in Threads, v \in MetricsInputs : MergeHeld(t, v)
    \/ \E t \in Threads : MergeCtor(t)
    \/ \E t \in Threads : MergeLoad(t)
    \/ \E t \in Threads : MergeStore(t)
    \/ \E t \in Threads : MergeDtor(t)

\* threads that call merge as declared, with the default getLock
DefaultNext ==
    \/ \E v \in MetricsInputs : RestoreShared(v)
    \/ \E t \in Threads, v \in MetricsInputs : MergeDefault(t, v)
    \/ \E t \in Threads : MergeCtor(t)
    \/ \E t \in Threads : MergeLoad(t)
    \/ \E t \in Threads : MergeStore(t)
    \/ \E t \in Threads : MergeDtor(t)

\* worker threads: update into the own aggregator, then merge(local, true)
WorkersNext ==
    \/ \E v \in MetricsInputs : RestoreShared(v)
    \/ \E t \in Threads, r \in ResultInputs : Update(t, r)
    \/ \E t \in Threads : MergeLocal(t)
    \/ \E t \in Threads : MergeCtor(t)
    \/ \E t \in Threads : MergeLoad(t)
    \/ \E t \in Threads : MergeStore(t)
    \/ \E t \in Threads : MergeDtor(t)

Init == MetricsInit /\ ClientAbsent /\ SinkInit /\ EngineAbsent

InitClient == MetricsInit /\ ClientInit /\ SinkInit /\ EngineAbsent

Next == MergeNext

Spec == Init /\ [][Next]_vars

SpecDefault == Init /\ [][DefaultNext]_vars

SpecWorkers == Init /\ [][WorkersNext]_vars

SpecSink == Init /\ [][SinkNext]_vars

SpecResult == InitClient /\ [][ResultNext]_vars

SpecApi == InitClient /\ [][ApiNext]_vars

SpecEngine == InitClient /\ [][EngineNext]_vars

InitCross == CrossInit /\ ClientAbsent /\ SinkInit /\ EngineAbsent

\* a thread inside merge runs on
SpecCross ==
    /\ InitCross
    /\ [][CrossNext]_vars
    /\ \A t \in Threads : WF_vars(MergeSteps(t))

InitWalk == MetricsInit /\ ClientAbsent /\ SinkInit /\ WalkInit

\* the walk is a synchronous computation: it is never suspended
SpecWalk ==
    /\ InitWalk
    /\ [][WalkNext]_vars
    /\ WF_vars(WalkNext)

\* the threads of MergeNext, every merged source holding the same counters
LockNext ==
    \/ \E t \in Threads : CallerLock(t)
    \/ \E t \in Threads : CallerUnlock(t)
    \/ \E t \in Threads : MergeLocked(t, ScaledCounters(1))
    \/ \E t \in Threads : MergeHeld(t, ScaledCounters(1))
    \/ \E t \in Threads : MergeCtor(t)
    \/ \E t \in Threads : MergeLoad(t)
    \/ \E t \in Threads : MergeStore(t)
    \/ \E t \in Threads : MergeDtor(t)

\* a thread inside merge runs on, and a thread that took the mutex itself
\* goes on to its merge call and to its unlock
FairSpec ==
    /\ Init /\ [][LockNext]_vars
    /\ \A t \in Threads :
        /\ WF_vars(MergeSteps(t))
        /\ WF_vars(MergeHeld(t, ScaledCounters(1)))
        /\ WF_vars(CallerUnlock(t))

(***************************************************************************)
(* Properties of concurrent merge.                                         *)
(***************************************************************************)
\* thread t is inside a merge call that has not returned
InCall(t) == pc[t] \in {"ctor", "load", "store", "dtor"}

\* C1: when threads concurrently merge into the shared aggregator with
\* getLock = true (or under a mutex they took themselves), then once all calls
\* have returned each of the nine shared counters is its value before the
\* calls plus the sum of that counter over every merged source
C1_NoLostIncrement ==
    (\A t \in Threads : ~InCall(t)) => met[Shared] = expect

\* every thread has merged a non-zero source with getLock = true and returned
C1_Witness ==
    /\ \A t \in Threads :
        /\ pc[t] = "idle"
        /\ nmerge[t] >= 1
        /\ call[t].getLock
        /\ met[t] # SwMetrics_reset
    /\ met[Shared] = expect

\* C4: when threads concurrently call merge as declared, with the default
\* getLock, then once all calls have returned each shared counter is its
\* initial value plus the sum of that counter over every merged source
C4_DefaultMergeSafe ==
    (\A t \in Threads : pc[t] = "idle")
        => \A f \in Range(MetricsCounters) : met[Shared][f] = expect[f]

\* C5: when every worker thread has accumulated its results with update and
\* merged its aggregator once with merge(local, true), the eight result
\* counters of the shared aggregator equal those of one aggregator updated
\* directly with every result of every thread
C5_UpdateThenMergeIsDirectUpdate ==
    (\A t \in Threads : pc[t] = "idle" /\ nmerge[t] = 1)
        => \A f \in Range(ResultCounters) : met[Shared][f] = seq[f]

\* every thread has updated its aggregator and merged it once
C5_Witness ==
    /\ \A t \in Threads : pc[t] = "idle" /\ nmerge[t] = 1 /\ nupd[t] >= 1
    /\ seq.swbts > 0
    /\ met[Shared].swbts = seq.swbts

\* the mutex of the shared aggregator is held by t only inside the guarded
\* part of a merge(r, true) or between the caller's own lock and unlock
LockHeldOnlyInGuard ==
    \A t \in Threads :
        lock[Shared] = t =>
            \/ pc[t] \in {"locked", "unlock"}
            \/ InCall(t) /\ call[t].held
            \/ pc[t] \in {"load", "store", "dtor"} /\ call[t].getLock

\* a merge(r, false) neither takes nor releases the mutex
UnlockedMergeLeavesMutex ==
    \A t \in Threads :
        (InCall(t) /\ ~call[t].getLock) => ((lock'[Shared] = t) <=> (lock[Shared] = t))

\* the mutex is not held by the caller's guard when merge(r, true) returns
MutexFreeOnReturn ==
    \A t \in Threads :
        (InCall(t) /\ ~InCall(t)' /\ call[t].getLock) => lock'[Shared] # t

\* C6: merge(r, false) never acquires the mutex, so a thread holding it can
\* call merge(r, false); merge(r, true) holds the mutex only while the nine
\* additions run and has released it on return; every merge call returns
C6_MergeLockDiscipline ==
    /\ []LockHeldOnlyInGuard
    /\ [][UnlockedMergeLeavesMutex /\ MutexFreeOnReturn]_vars
    /\ \A t \in Threads : InCall(t) ~> ~InCall(t)

\* a thread that took the mutex itself is adding inside merge(r, false) while
\* another thread waits in the constructor of its merge(r, true) guard
C6_Witness ==
    \E t, u \in Threads :
        /\ t # u
        /\ pc[t] = "store" /\ call[t].held /\ lock[Shared] = t
        /\ pc[u] = "ctor" /\ call[u].getLock

\* C7: merging an all-zero aggregator into an aggregator m, with getLock true
\* or false, leaves the nine counters of m unchanged
C7_MergeZeroIsIdentity ==
    [][(lastOp'.op = "merge" /\ met[lastOp'.src] = SwMetrics_reset)
            => met'[lastOp'.dst] = met[lastOp'.dst]]_vars

\* an all-zero aggregator has just been merged into a non-zero one
C7_Witness ==
    /\ lastOp.op = "merge"
    /\ lastOp.getLock
    /\ met[lastOp.src] = SwMetrics_reset
    /\ met[lastOp.dst] # SwMetrics_reset

(***************************************************************************)
(* Properties of the sinks.                                                *)
(***************************************************************************)
\* C2: while the hook of a sink runs for thread t, t holds the sink's mutex,
\* and no two threads are inside the hook of the same sink
C2_HookUnderLock ==
    /\ \A t \in Threads : spc[t] = "hook" => slock[scall[t].sink] = t
    /\ \A t, u \in Threads :
        (t # u /\ spc[t] = "hook" /\ spc[u] = "hook") => scall[t].sink # scall[u].sink

\* the record of one reportCounters call: cups, TAB, bts, NEWLINE
RecordText(c) == Decimal(c.cups) \o <<"\t">> \o Decimal(c.bts) \o <<"\n">>

IsPrefix(p, o) == Len(p) <= Len(o) /\ SubSeq(o, 1, Len(p)) = p

Without(recs, i) == SubSeq(recs, 1, i - 1) \o SubSeq(recs, i + 1, Len(recs))

\* o is the records recs, each once, written one after another in some order
RECURSIVE IsConcatOf(_, _)
IsConcatOf(o, recs) ==
    IF recs = <<>> THEN o = <<>>
    ELSE \E i \in DOMAIN recs :
            /\ IsPrefix(RecordText(recs[i]), o)
            /\ IsConcatOf(SubSeq(o, Len(RecordText(recs[i])) + 1, Len(o)), Without(recs, i))

\* C3: once the concurrent reportCounters calls have returned, the stream
\* holds whole records cups TAB bts NEWLINE, exactly one for each call
C3_WholeRecords ==
    (\A t \in Threads : spc[t] = "idle") => IsConcatOf(out["counters"], reported)

(***************************************************************************)
(* Properties of SwResult.                                                 *)
(***************************************************************************)
\* C8: after reset(), empty() is true and the eight counters are zero
C8_ResetEmptiesAndZeroes ==
    lastOp.op = "reset"
        => SwResult_empty(res) /\ \A f \in Range(ResultCounters) : res[f] = 0

\* a result the engine populated (nup = 2) has been reset
C8_Witness ==
    /\ lastOp.op = "reset"
    /\ prevOp = "populate"
    /\ res.nup = 2
    /\ SwResult_empty(res)

\* the codes of the decoded nucleotides
Nucleotides == 0..3

\* C9: after reset() of a populated result nothing the attempt installed is
\* left in any field: no alignment, no counter, no decoded nucleotide in nup
\* or ndn
C9_ResetClearsAll ==
    (lastOp.op = "reset" /\ prevOp = "populate")
        => /\ SwResult_empty(res)
           /\ \A f \in Range(ResultCounters) : res[f] = 0
           /\ res.nup \notin Nucleotides
           /\ res.ndn \notin Nucleotides

\* C10: reverse() applied to the result of reverse() gives back every edit
\* list in its original order, and reverse() changes no counter and no score
C10_ReverseTwiceIdentity ==
    [][lastOp'.op = "reverse"
        => /\ SwResult_reverse(res') = res
           /\ CountersOf(res') = CountersOf(res)
           /\ res'.alres.score = res.alres.score
           /\ res'.alres.oscore = res.alres.oscore]_vars

\* a result whose edit list is not its own reverse has been reversed twice
C10_Witness ==
    /\ lastOp.op = "reverse"
    /\ prevOp = "reverse"
    /\ Len(res.alres.ned) >= 2
    /\ res.alres.ned # Reversed(res.alres.ned)
    /\ res.swbts > 0

(***************************************************************************)
(* Properties of the DP matrix engine.                                     *)
(***************************************************************************)
\* C11: when the whole-problem filter decides that the maximum achievable
\* score is below the threshold, the invocation increments swskip by 1, leaves
\* swcups, swfail and swsucc unchanged, fills no cell, and returns a result
\* for which empty() is true
C11_SkippedProblem ==
    (epc = "done" /\ MaxAchievable(erun) < erun.minsc)
        => /\ res.swskip = pre.swskip + 1
           /\ res.swcups = pre.swcups
           /\ res.swfail = pre.swfail
           /\ res.swsucc = pre.swsucc
           /\ mat = <<>>
           /\ SwResult_empty(res)

\* a read of four bases, which scores 8 at most, has been skipped under the
\* threshold 9
C11_Witness ==
    /\ epc = "done"
    /\ eout = "skipped"
    /\ Len(erun.read) = 4
    /\ erun.minsc = 9
    /\ res.swskip = 1
    /\ res.swcups = 0

\* C12: when the DP is run and no alignment reaches the threshold, the result
\* is empty, swfail is incremented by exactly 1 and swsucc is unchanged; no
\* invocation increments both swsucc and swfail
C12_FailedProblem ==
    /\ (epc = "done" /\ mat # <<>> /\ ~Qualifies(erun, BestScore(erun, mat)))
        => /\ SwResult_empty(res)
           /\ res.swfail = pre.swfail + 1
           /\ res.swsucc = pre.swsucc
    /\ ~(res.swsucc > pre.swsucc /\ res.swfail > pre.swfail)

\* the all-mismatch pair AAAA / CCCC has been scored and has failed
C12_Witness ==
    /\ epc = "done"
    /\ eout = "failed"
    /\ erun.read = <<"A", "A", "A", "A">>
    /\ erun.ref = <<"C", "C", "C", "C">>
    /\ res.swcups > 0
    /\ res.swfail = 1

\* steps of the walk that took a transition of S
TraceCount(S) == Cardinality({k \in DOMAIN etrace : etrace[k].tr \in S})

\* edits of one type in the reported edit list
EditCount(type) ==
    Cardinality({k \in DOMAIN res.alres.ned : res.alres.ned[k].type = type})

\* the invocation for read and ref has returned, under a threshold the
\* score 5 reaches
Returned(read, ref) ==
    epc = "done" /\ erun.read = read /\ erun.ref = ref /\ erun.minsc <= 5

OneReadGap ==
    /\ eout = "aligned"
    /\ EditCount("rdgap") = 1
    /\ TraceCount({"SW_BT_OALL_READ_OPEN"}) = 1
    /\ TraceCount({"SW_BT_OALL_READ_EXTEND"}) = 0

\* C13 as stated: for read ACCGT against reference ACGT, in each alignment
\* mode, the best alignment has exactly one read-gap edit and its backtrace
\* uses exactly one read-gap-open and no read-gap-extend transition
C13_OneReadGapInEachMode ==
    Returned(<<"A", "C", "C", "G", "T">>, <<"A", "C", "G", "T">>) => OneReadGap

\* C13 as amended: for read ACCGT against reference ACGT in end-to-end mode
\* the best alignment has exactly one read-gap edit and its backtrace uses
\* exactly one read-gap-open and no read-gap-extend transition
C13_OneReadGapEndToEnd ==
    (Returned(<<"A", "C", "C", "G", "T">>, <<"A", "C", "G", "T">>) /\ erun.mode = "e2e")
        => OneReadGap

\* ACCGT has been aligned end to end against ACGT with score 5 and one
\* read-gap edit
C13_Witness ==
    /\ Returned(<<"A", "C", "C", "G", "T">>, <<"A", "C", "G", "T">>)
    /\ erun.mode = "e2e"
    /\ eout = "aligned"
    /\ res.alres.score = Score(5)
    /\ EditCount("rdgap") = 1
    /\ res.swbts = 5

OneSubstitutionAtEnd ==
    /\ eout = "aligned"
    /\ res.alres.score = Score(5)
    /\ res.alres.ned = <<[pos |-> 4, type |-> "mismatch"]>>

\* C14 as stated: for read ACGA against reference ACGT, in each alignment
\* mode, the best score is 5 and the edit list holds exactly one substitution
\* edit, at the last read position, and no gap edit
C14_OneSubstitutionInEachMode ==
    Returned(<<"A", "C", "G", "A">>, <<"A", "C", "G", "T">>) => OneSubstitutionAtEnd

\* C14 as amended: for read ACGA against reference ACGT in end-to-end mode
\* the best score is 5 and the edit list holds exactly one substitution edit,
\* at the last read position, and no gap edit
C14_OneSubstitutionEndToEnd ==
    (Returned(<<"A", "C", "G", "A">>, <<"A", "C", "G", "T">>) /\ erun.mode = "e2e")
        => OneSubstitutionAtEnd

\* ACGA has been aligned end to end against ACGT by four diagonal steps
C14_Witness ==
    /\ Returned(<<"A", "C", "G", "A">>, <<"A", "C", "G", "T">>)
    /\ erun.mode = "e2e"
    /\ eout = "aligned"
    /\ TraceCount({"SW_BT_OALL_DIAG"}) = 4
    /\ Len(res.alres.ned) = 1

(***************************************************************************)
(* Properties of the backtrace state machine.                              *)
(***************************************************************************)
\* the end cell the walk started from
WalkOrigin == IF etrace = <<>> THEN epos ELSE etrace[1]

\* every step taken consumed a read position or a reference position
EveryStepConsumes ==
    \A k \in DOMAIN etrace :
        LET nxt == IF k < Len(etrace) THEN etrace[k + 1] ELSE epos
        IN nxt.i + nxt.j < etrace[k].i + etrace[k].j

\* C15: every backtrace walk terminates: each transition consumes at least
\* one read position or one reference position, so from any end cell (i, j)
\* the walk reaches a start cell after at most i + j steps, whatever
\* transitions the cells recorded
C15_WalkTerminates ==
    /\ [](EveryStepConsumes /\ Len(etrace) <= WalkOrigin.i + WalkOrigin.j)
    /\ [](epc = "done" => BorderCell(epos))
    /\ <>(epc = "done")

\* a walk from an inner end cell has passed through both gap matrices and has
\* ended at a start cell
C15_Witness ==
    /\ epc = "done"
    /\ WalkOrigin.i >= 2 /\ WalkOrigin.j >= 2
    /\ \E k \in DOMAIN etrace : etrace[k].ct = "SW_BT_CELL_RDGAP"
    /\ \E k \in DOMAIN etrace : etrace[k].ct = "SW_BT_CELL_RFGAP"
    /\ BorderCell(epos)

\* the location the walk was in after step k
LocationAfter(k) == IF k < Len(etrace) THEN etrace[k + 1].ct ELSE epos.ct

\* C16: at every step of a backtrace walk the current location is one of
\* OALL, RDGAP, RFGAP; the walk starts in OALL; the transition taken is one
\* whose source location is the current location, and the next location is
\* its target; RDGAP is entered only by read-gap-extend or rdgap-extend and
\* RFGAP only by ref-gap-extend or rfgap-extend
C16_WalkFollowsStateMachine ==
    /\ epos.ct \in CellTypes
    /\ WalkOrigin.ct = "SW_BT_CELL_OALL"
    /\ \A k \in DOMAIN etrace :
        /\ etrace[k].ct \in CellTypes
        /\ etrace[k].tr \in Range(Transitions)
        /\ TransitionFrom(etrace[k].tr) = etrace[k].ct
        /\ LocationAfter(k) = TransitionTo(etrace[k].tr)
        /\ LocationAfter(k) = "SW_BT_CELL_RDGAP"
            => etrace[k].tr \in {"SW_BT_OALL_READ_EXTEND", "SW_BT_RDGAP_EXTEND"}
        /\ LocationAfter(k) = "SW_BT_CELL_RFGAP"
            => etrace[k].tr \in {"SW_BT_OALL_REF_EXTEND", "SW_BT_RFGAP_EXTEND"}

\* a walk has entered RDGAP by read-gap-extend, left it by rdgap-open, and
\* has reached its start cell
C16_Witness ==
    /\ epc = "done"
    /\ eout = "aligned"
    /\ \E k \in DOMAIN etrace :
        /\ k < Len(etrace)
        /\ etrace[k].tr = "SW_BT_OALL_READ_EXTEND"
        /\ etrace[k + 1].ct = "SW_BT_CELL_RDGAP"
        /\ etrace[k + 1].tr = "SW_BT_RDGAP_OPEN"
        /\ LocationAfter(k + 1) = "SW_BT_CELL_OALL"

(***************************************************************************)
(* Frame properties of update and merge.                                   *)
(***************************************************************************)
\* C17: update(r) adds exactly the eight counters of r to the aggregator,
\* leaves the aggregator's rshit unchanged, and leaves the SwResult r
\* unchanged
C17_UpdateAddsEightCounters ==
    [][lastOp'.op = "update"
        => /\ \A f \in Range(ResultCounters) :
                met'[lastOp'.dst][f] = met[lastOp'.dst][f] + res[f]
           /\ met'[lastOp'.dst].rshit = met[lastOp'.dst].rshit
           /\ \A a \in Aggs \ {lastOp'.dst} : met'[a] = met[a]
           /\ res' = res]_vars

\* a populated result has been added to an aggregator whose rshit is not 0
C17_Witness ==
    /\ lastOp.op = "update"
    /\ res.swbts > 0
    /\ met[lastOp.dst].rshit > 0
    /\ met[lastOp.dst].swbts = ScaledCounters(1).swbts + res.swbts

\* m after k calls m.merge(r)
RECURSIVE MergedTimes(_, _, _)
MergedTimes(m, r, k) ==
    IF k = 0 THEN m ELSE MergedTimes(SwMetrics_mergeBody(m, r), r, k - 1)

\* C18: merge(r, getLock) never modifies its source r when r is a different
\* object from the destination: the nine counters of r are the same after the
\* call as before, and merge does not reset r; so merging the same aggregator
\* k times without a reset adds k times its totals to the destination
C18_MergeKeepsSource ==
    /\ [][(lastOp'.op = "merge" /\ lastOp'.src # lastOp'.dst)
            => /\ met'[lastOp'.src] = met[lastOp'.src]
               /\ \A f \in Range(MetricsCounters) :
                    met'[lastOp'.dst][f] = met[lastOp'.dst][f] + met'[lastOp'.src][f]]_vars
    /\ [](\A dst \in ClientAggs : \A src \in ClientAggs \ {dst} :
            \A k \in 0..MaxOps, f \in Range(MetricsCounters) :
                MergedTimes(met[dst], met[src], k)[f] = met[dst][f] + k * met[src][f])

\* a non-zero aggregator has been merged twice into another one, which now
\* holds twice its totals
C18_Witness ==
    /\ lastOp.op = "merge"
    /\ lastOp.src # lastOp.dst
    /\ met[lastOp.src] # SwMetrics_reset
    /\ \A f \in Range(MetricsCounters) : met[lastOp.dst][f] = 2 * met[lastOp.src][f]

(***************************************************************************)
(* Properties of merges in opposite directions.                            *)
(***************************************************************************)
\* thread t waits in the constructor of its guard for a mutex that is held
Blocked(t) == pc[t] = "ctor" /\ call[t].getLock /\ lock[call[t].dst] # Free

\* a thread holds no mutex but that of the destination of the merge it is in
OnlyDestinationLocked ==
    \A a \in Aggs, t \in Threads :
        lock[a] = t => (InCall(t) /\ call[t].getLock /\ a = call[t].dst)

\* whenever a merge call is in progress, some thread inside merge can step
NoDeadlock ==
    (\E t \in Threads : InCall(t)) => (\E t \in Threads : InCall(t) /\ ~Blocked(t))

\* C19: merge acquires only the destination aggregator's lock, never the
\* source's: when one thread runs X.merge(Y, true) while another runs
\* Y.merge(X, true), no deadlock state is reachable and both calls return
\* under fair scheduling
C19_CrossMergeReturns ==
    /\ [](OnlyDestinationLocked /\ NoDeadlock)
    /\ \A t \in Threads : InCall(t) ~> ~InCall(t)

\* two threads are adding inside merges in opposite directions, each holding
\* the mutex of its own destination
C19_Witness ==
    \E t, u \in Threads :
        /\ t # u
        /\ pc[t] = "store" /\ pc[u] = "store"
        /\ call[t].dst = call[u].src /\ call[t].src = call[u].dst
        /\ lock[call[t].dst] = t /\ lock[call[u].dst] = u

====
